---- MODULE Spec2Model ----
(***************************************************************************)
(* LokiPool: a SOCKS5 relay in front of a pool of upstream proxies.        *)
(*                                                                         *)
(* The pool (src/src/proxy_pool.rs) holds `proxies` (called entries here), *)
(* `current_index` and the backing file.  load_from_file and the health    *)
(* loops replace entries; next_proxy, choose_proxy and get_current_proxy   *)
(* rotate and read the selection.  The startup flow and the console        *)
(* (src/src/main.rs) and the auto-switch ticker (src/src/socks_server.rs)  *)
(* drive the pool.                                                         *)
(***************************************************************************)
EXTENDS Integers, Sequences, FiniteSets, Bags, TLC

(* ---------------------------------------------------------------- bounds *)

\* Distinct upstream addresses in the life-cycle runs; an address is a number.
MaxAddr == 2
\* Largest pool in the runs that exercise the selection calls on a fixed pool.
MaxPool == 3
\* Window of consecutive next_proxy calls the history remembers.
MaxRot == 4
\* Probe latencies are 1..MaxLatency (a Duration in the code).
MaxLatency == 2
\* Lines of the proxy file as the user (or the crawler) left it at startup.
MaxLines == 2
\* Health-loop tasks alive at once; every start_health_check adds one.
MaxHealth == 3
\* The console's `goto <n>` takes n in 0..MaxArg.
MaxArg == 3
\* Width of usize in the model; 2^WordBits - 1 and 2^64 - 1 have the same
\* remainders modulo 1, 2, 3, 4, 5 and 6.
WordBits == 16
\* Connections the listener accepts, and accept errors it meets, in one run.
MaxSessions == 2
MaxAcceptErrors == 1
MaxRelayed == 1
MaxConcurrency == 2

Address == 1..MaxAddr
Latency == 1..MaxLatency
UsizeModulus == 2 ^ WordBits

(* ------------------------------------------------------------ data model *)

VARIABLES
    entries,        \* ProxyPool.proxies: Vec<ProxyEntry>
    current_index,  \* ProxyPool.current_index: usize
    file,           \* contents of config.proxy.proxy_file, a sequence of lines
    wlock,          \* holder of the write guard on `proxies`: "none", "load", "health"
    main_pc,        \* main / console task: "boot", "start_health", "console", "stopped"
    load,           \* the running load_from_file call of the main / console task:
                    \* [pc, cands, valid], and (history) the pool its swap replaced
    health,         \* bag of health-loop tasks, each [pc, cands, valid]
    auto_switch,    \* config.proxy.auto_switch
    overflow_checks,\* build profile: TRUE = arithmetic overflow panics (debug)
    panicked,       \* the console task has panicked
    use_auth,       \* config.proxy.use_auth
    sess,           \* one client session (handle_connection)
    listener,       \* SocksServer::run: its position and what it has accepted
    peers,          \* what clients and upstreams send: "any" message, or "plain" ones
    observe,        \* history: the run records what the selection calls return
    ret,            \* history: what the pool call completed by the last step returned
    hist,           \* history: the selection calls since the last change of the pool
    tester,         \* one test_proxies call followed task by task
    proxies_lock,   \* the RwLock around ProxyPool.proxies: guards held and queue
    index_lock,     \* the RwLock around ProxyPool.current_index
    calls,          \* the pool call each task is in, followed guard by guard
    write_failed    \* history: some fs::write of the proxy file has failed

\* The two locks and the calls that go through them guard by guard.
locking == <<proxies_lock, index_lock, calls>>

\* The pool, its tasks and the server, with test_proxies taken as one step.
program == <<entries, current_index, file, wlock, main_pc, load, health,
             auto_switch, overflow_checks, panicked, use_auth, sess, listener,
             peers, observe, ret, hist, locking, write_failed>>

vars == <<program, tester>>

\* Configuration and switches no step changes.
config == <<auto_switch, overflow_checks, use_auth, observe, peers>>

\* What no step of the pool's tasks touches when a pool call is taken as one
\* step: the configuration, the session and the listener, and the
\* task-level and guard-level views.
steady == <<config, sess, listener, tester, locking>>
fixed == <<steady, write_failed>>

\* What no step of a session changes.
poolside == <<entries, current_index, file, wlock, main_pc, load, health,
              auto_switch, overflow_checks, panicked, use_auth, peers, observe, ret,
              hist, tester, locking, write_failed>>

\* What no step of a session that is already accepted changes.
serverside == <<poolside, listener>>

\* ProxyEntry.  last_check and fail_count are written (fail_count always 0)
\* and never read by the program.
ProxyEntry == [address : Address, latency : Latency]

\* A line of the file: the address on it (0: nothing but white space) and
\* whether white space surrounds it.
RawLine == [addr : 0..MaxAddr, pad : BOOLEAN]

\* Option<ProxyEntry>: <<>> is None, <<e>> is Some(e).
None == <<>>
Some(e) == <<e>>

Perms(S) == {s \in [1..Cardinality(S) -> S] : \A i, j \in 1..Cardinality(S) : s[i] = s[j] => i = j}

SeqsUpTo(S, n) == UNION {[1..k -> S] : k \in 0..n}

Addresses(es) == [i \in 1..Len(es) |-> es[i].address]

(* ------------------------------------------------- test_proxies (Bulk Tester) *)

\* A sort that puts an element before those of equal latency.
InsertBeforeEqual(e, t) ==
    LET k == Cardinality({i \in 1..Len(t) : t[i].latency < e.latency})
    IN  SubSeq(t, 1, k) \o <<e>> \o SubSeq(t, k + 1, Len(t))

\* Vec::sort_by(|a, b| a.latency.cmp(&b.latency)) is a stable sort: insert
\* each element behind those of lower or equal latency that precede it.
InsertByLatency(e, t) ==
    LET k == Cardinality({i \in 1..Len(t) : t[i].latency <= e.latency})
    IN  SubSeq(t, 1, k) \o <<e>> \o SubSeq(t, k + 1, Len(t))

\* A test_proxies that returns the probes in collection order.
SortSkipped(s) == s

RECURSIVE SortByLatency(_)
SortByLatency(s) ==
    IF s = <<>> THEN <<>>
    ELSE InsertByLatency(s[Len(s)], SortByLatency(SubSeq(s, 1, Len(s) - 1)))

\* What the network decides in one test_proxies run over the candidates
\* cands (a sequence of addresses): outcome[i] is the latency measured for
\* candidate i, 0 when its probe failed or timed out; order is the order in
\* which the successful probes pushed onto valid_proxies.
ProbeOutcomes(cands) == [1..Len(cands) -> 0..MaxLatency]
CollectOrders(cands, outcome) == Perms({i \in 1..Len(cands) : outcome[i] > 0})

\* test_proxies: one entry per successful probe, carrying the candidate's
\* address and the measured latency, in collection order, then sorted.
TestProxies(cands, outcome, order) ==
    SortByLatency([j \in 1..Len(order) |->
        [address |-> cands[order[j]], latency |-> outcome[order[j]]]])

\* A test_proxies call followed task by task (lines 106-198): the
\* candidates handed in, config.proxy.max_concurrency, how many tasks the
\* for loop has spawned, each task's position, how often each candidate was
\* probed and what its probe measured (0: failed or timed out), the permits
\* left in the semaphore, valid_proxies, and what the call returned.
\*   task[i]: "unspawned", "waiting" (in semaphore.acquire), "probing" (in
\*   test_proxy), "passed" (probe Ok, not yet pushed), "done" (task ended).
TesterIdle ==
    [pc |-> "idle", cands |-> <<>>, max_concurrency |-> 0, spawned |-> 0,
     task |-> <<>>, probes |-> <<>>, measured |-> <<>>, permits |-> 0,
     valid_proxies |-> <<>>, result |-> <<>>]

TesterCalled(cands, max_concurrency) ==
    [TesterIdle EXCEPT !.pc = "spawning",
                       !.cands = cands,
                       !.max_concurrency = max_concurrency,
                       !.task = [i \in 1..Len(cands) |-> "unspawned"],
                       !.probes = [i \in 1..Len(cands) |-> 0],
                       !.measured = [i \in 1..Len(cands) |-> 0],
                       !.permits = max_concurrency]

\* Tasks that hold a permit of the semaphore: their probe is in flight, or
\* it has passed and the entry is not pushed yet.
InFlight(t) == {i \in 1..Len(t.cands) : t.task[i] \in {"probing", "passed"}}

\* Lines 106-111: nothing to test returns an empty Vec at once.
TesterReturnEmpty ==
    /\ tester.pc = "spawning"
    /\ tester.cands = <<>>
    /\ tester' = [tester EXCEPT !.pc = "returned", !.result = <<>>]
    /\ UNCHANGED program

\* Lines 138-178: the for loop spawns the task of the next candidate.
TesterSpawn ==
    /\ tester.pc = "spawning"
    /\ tester.spawned < Len(tester.cands)
    /\ tester' = [tester EXCEPT !.spawned = @ + 1,
                                !.task[tester.spawned + 1] = "waiting"]
    /\ UNCHANGED program

\* A task that starts its probe without a permit.
TaskAcquireUnbounded ==
    /\ \E i \in 1..Len(tester.cands) :
          /\ tester.task[i] = "waiting"
          /\ tester' = [tester EXCEPT !.task[i] = "probing",
                                      !.probes[i] = @ + 1]
    /\ UNCHANGED program

\* Lines 146-149: a task gets a permit and starts test_proxy.
TaskAcquire ==
    /\ \E i \in 1..Len(tester.cands) :
          /\ tester.task[i] = "waiting"
          /\ tester.permits > 0
          /\ tester' = [tester EXCEPT !.task[i] = "probing",
                                      !.probes[i] = @ + 1,
                                      !.permits = @ - 1]
    /\ UNCHANGED program

\* Lines 149-157, 175: test_proxy returns.  On Err (failed or timed out) the
\* task ends and its permit goes back.
TaskProbeEnds ==
    /\ \E i \in 1..Len(tester.cands), latency \in 0..MaxLatency :
          /\ tester.task[i] = "probing"
          /\ tester' =
                IF latency = 0
                THEN [tester EXCEPT !.task[i] = "done", !.permits = @ + 1]
                ELSE [tester EXCEPT !.task[i] = "passed", !.measured[i] = latency]
    /\ UNCHANGED program

\* Lines 157-175: under the mutex, push the entry (the old one with the new
\* latency, or a new one: the address is the candidate's either way); the
\* task ends and its permit goes back.
TaskPush ==
    /\ \E i \in 1..Len(tester.cands) :
          /\ tester.task[i] = "passed"
          /\ tester' = [tester EXCEPT
                !.task[i] = "done",
                !.permits = @ + 1,
                !.valid_proxies = Append(@, [address |-> tester.cands[i],
                                             latency |-> tester.measured[i]])]
    /\ UNCHANGED program

\* Lines 180-198: every handle is awaited, valid_proxies is taken out and
\* sorted by latency.
TesterJoin ==
    /\ tester.pc = "spawning"
    /\ tester.cands # <<>>
    /\ tester.spawned = Len(tester.cands)
    /\ \A i \in 1..Len(tester.cands) : tester.task[i] = "done"
    /\ tester' = [tester EXCEPT !.pc = "returned",
                                !.result = SortByLatency(tester.valid_proxies)]
    /\ UNCHANGED program

(* ------------------------------------------------------------ the proxy file *)

SetToSeq(S) == CHOOSE s \in Perms(S) : TRUE

\* A load that keeps every non-blank line, repeated or not.
RECURSIVE NonBlankLines(_)
NonBlankLines(f) ==
    IF f = <<>> THEN <<>>
    ELSE (IF f[1].addr = 0 THEN <<>> ELSE <<f[1].addr>>) \o NonBlankLines(Tail(f))

\* load_from_file, lines 205-213: trim every line, drop the blank ones,
\* insert the rest into a HashSet.  The set is handed to test_proxies, which
\* iterates it in some order.
LoadCandidates(f) == SetToSeq({f[i].addr : i \in 1..Len(f)} \ {0})

\* A join that leaves a blank behind every address.
JoinLinesPadded(addrs) == [i \in 1..Len(addrs) |-> [addr |-> addrs[i], pad |-> TRUE]]

\* fs::write(path, addresses.join("\n")): one line per address, no padding;
\* no address gives the empty file, which has no line.
JoinLines(addrs) == [i \in 1..Len(addrs) |-> [addr |-> addrs[i], pad |-> FALSE]]

(* ------------------------------------------------------ selection operations *)

\* usize subtraction in a build without overflow checks wraps.
WrappingSub(a, b) == (a - b) % UsizeModulus

\* get_current_proxy: proxies.get(index).cloned()
GetCurrent(es, index) == IF index < Len(es) THEN Some(es[index + 1]) ELSE None

\* A next_proxy that stops at the end of the list instead of wrapping.
NextIndexNoWrap(index, len) == IF index + 1 < len THEN index + 1 ELSE index

\* next_proxy, line 347
NextIndex(index, len) == (index + 1) % len

\* A choose_proxy that takes its argument as a 0-based index.
ChooseIndexZeroBased(n, len) == n % len

\* choose_proxy, line 359
ChooseIndex(n, len) == WrappingSub(n, 1) % len

\* What the last pool call returned, and who made it: the console unless
\* said otherwise.
RetNone == [op |-> "none", arg |-> 0, out |-> "ret", val |-> None, by |-> "none"]
Returned(op, arg, val) ==
    [op |-> op, arg |-> arg, out |-> "ret", val |-> val, by |-> "console"]
CalledBy(r, by) == [r EXCEPT !.by = by]

HistNone == [kind |-> "none", i0 |-> 0, k |-> 0, n |-> 0]

\* One more next_proxy in the current run of consecutive calls; a run longer
\* than MaxRot is remembered from its last MaxRot calls on.
HistAdvance(h, index) ==
    IF h.kind = "run" /\ h.k < MaxRot
    THEN [h EXCEPT !.k = h.k + 1]
    ELSE [kind |-> "run", i0 |-> index, k |-> 1, n |-> 0]

HistSelect(n) == [kind |-> "sel", i0 |-> 0, k |-> 0, n |-> n]

\* The selection calls write the history only in runs that observe them.
Observe(r, h) ==
    /\ ret' = IF observe THEN r ELSE RetNone
    /\ hist' = IF observe THEN h ELSE hist

Alive == main_pc # "stopped"

LoadIdle == [pc |-> "idle", cands |-> <<>>, valid |-> <<>>, before |-> <<>>]

\* main returns (or its console task is gone): the runtime shuts down and
\* drops every task.
Stop ==
    /\ main_pc' = "stopped"
    /\ load' = LoadIdle
    /\ health' = EmptyBag

\* next_proxy, called by the console or by the ticker.  The guards on
\* current_index (write) and on proxies (read) are held for the whole call.
NextProxy(by) ==
    /\ wlock = "none"
    /\ IF entries = <<>>
       THEN /\ Observe(CalledBy(Returned("next", 0, None), by), hist)
            /\ UNCHANGED current_index
       ELSE /\ current_index' = NextIndex(current_index, Len(entries))
            /\ Observe(CalledBy(Returned("next", 0, GetCurrent(entries, current_index')), by),
                       HistAdvance(hist, current_index))
    /\ UNCHANGED <<entries, file, wlock, load, health, fixed>>

\* An auto-switch task that SocksServer::new spawns whatever the
\* configuration says.
AutoSwitchTickUnconditional ==
    /\ Alive
    /\ NextProxy("ticker")
    /\ UNCHANGED <<main_pc, panicked>>

\* The auto-switch task of SocksServer::new, spawned when
\* config.proxy.auto_switch is set: sleep, next_proxy, log.
AutoSwitchTick ==
    /\ Alive
    /\ auto_switch
    /\ NextProxy("ticker")
    /\ UNCHANGED <<main_pc, panicked>>

ConsoleReady == main_pc = "console" /\ load.pc = "idle"

\* console `next`
ConsoleNext ==
    /\ ConsoleReady
    /\ NextProxy("console")
    /\ UNCHANGED <<main_pc, panicked>>

\* get_current_proxy, for any caller.
GetCurrentProxy ==
    /\ wlock = "none"
    /\ Observe(Returned("get", 0, GetCurrent(entries, current_index)), hist)
    /\ UNCHANGED <<entries, current_index, file, wlock, main_pc, load, health,
                   panicked, fixed>>

\* console `show`
ConsoleShow ==
    /\ ConsoleReady
    /\ GetCurrentProxy

\* console `list`: list_proxies
ConsoleList ==
    /\ ConsoleReady
    /\ wlock = "none"
    /\ Observe(Returned("list", 0, entries), hist)
    /\ UNCHANGED <<entries, current_index, file, wlock, main_pc, load, health,
                   panicked, fixed>>

\* A choose_proxy that computes `index - 1` before it looks at the pool.
ChooseProxySubFirst(n) ==
    /\ wlock = "none"
    /\ IF n = 0 /\ overflow_checks
       THEN /\ Observe([op |-> "choose", arg |-> n, out |-> "panic", val |-> None,
                        by |-> "console"],
                       HistNone)
            /\ panicked' = TRUE
            /\ Stop
            /\ UNCHANGED current_index
       ELSE IF entries = <<>>
       THEN /\ Observe(Returned("choose", n, None), hist)
            /\ UNCHANGED <<current_index, main_pc, panicked, load, health>>
       ELSE /\ current_index' = WrappingSub(n, 1) % Len(entries)
            /\ Observe(Returned("choose", n, GetCurrent(entries, current_index')),
                       HistSelect(n))
            /\ UNCHANGED <<main_pc, panicked, load, health>>
    /\ UNCHANGED <<entries, file, wlock, fixed>>

\* choose_proxy(n).  On a non-empty pool n = 0 makes `index - 1` overflow:
\* a panic of the calling (console) task when the build checks overflow,
\* after which main shuts the process down; a wrap otherwise.
ChooseProxy(n) ==
    /\ wlock = "none"
    /\ IF entries = <<>>
       THEN /\ Observe(Returned("choose", n, None), hist)
            /\ UNCHANGED <<current_index, main_pc, panicked, load, health>>
       ELSE IF n = 0 /\ overflow_checks
       THEN /\ Observe([op |-> "choose", arg |-> n, out |-> "panic", val |-> None,
                        by |-> "console"],
                       HistNone)
            /\ panicked' = TRUE
            /\ Stop
            /\ UNCHANGED current_index
       ELSE /\ current_index' = ChooseIndex(n, Len(entries))
            /\ Observe(Returned("choose", n, GetCurrent(entries, current_index')),
                       HistSelect(n))
            /\ UNCHANGED <<main_pc, panicked, load, health>>
    /\ UNCHANGED <<entries, file, wlock, fixed>>

\* console `goto <n>`; an argument that is no usize is refused by the console.
ConsoleGoto ==
    /\ ConsoleReady
    /\ \E n \in 0..MaxArg : ChooseProxy(n)

\* console `quit` (or Ctrl+C): main returns and the runtime drops every task.
ConsoleQuit ==
    /\ ConsoleReady
    /\ Stop
    /\ ret' = RetNone
    /\ UNCHANGED <<entries, current_index, file, wlock, panicked, hist, fixed>>

(* ------------------------------------------------------------ load_from_file *)

HealthAsleep == [pc |-> "sleep", cands |-> <<>>, valid |-> <<>>]

\* start_health_check: tokio::spawn of one more health loop.
StartHealthCheck(h) == h (+) SetToBag({HealthAsleep})

\* load_from_file returns to its caller: the startup flow of main (which
\* gives up on Err and goes on to start_health_check on Ok) or the console's
\* `ping` (which goes back to the prompt either way).
LoadReturn(out) ==
    /\ ret' = [op |-> "load", arg |-> 0, out |-> out, val |-> None, by |-> "console"]
    /\ main_pc' = IF main_pc = "console" THEN "console"
                  ELSE IF out = "ok" THEN "start_health" ELSE "stopped"

\* A load that hands whatever it collected to test_proxies, without the
\* is_empty check of lines 215-217.
LoadReadProbesEmpty ==
    /\ load.pc = "idle"
    /\ \/ main_pc = "boot"
       \/ main_pc = "console" /\ BagCardinality(health) < MaxHealth
    /\ \E io_ok \in BOOLEAN :
          IF ~io_ok
          THEN /\ LoadReturn("err")
               /\ UNCHANGED load
          ELSE /\ load' = [pc |-> "probe", cands |-> LoadCandidates(file), valid |-> <<>>,
                        before |-> <<>>]
               /\ ret' = RetNone
               /\ UNCHANGED main_pc
    /\ UNCHANGED <<entries, current_index, file, wlock, health, panicked, hist, fixed>>

\* Lines 203-217: open and read the file, collect the candidates; a read
\* error returns Err, no candidate returns the InvalidData error.
\* A ping is taken only while its health loop still fits under MaxHealth.
LoadRead ==
    /\ load.pc = "idle"
    /\ \/ main_pc = "boot"
       \/ main_pc = "console" /\ BagCardinality(health) < MaxHealth
    /\ \E io_ok \in BOOLEAN :
          IF ~io_ok
          THEN /\ LoadReturn("err")
               /\ UNCHANGED load
          ELSE IF LoadCandidates(file) = <<>>
          THEN /\ LoadReturn("empty")
               /\ UNCHANGED load
          ELSE /\ load' = [pc |-> "probe", cands |-> LoadCandidates(file), valid |-> <<>>,
                        before |-> <<>>]
               /\ ret' = RetNone
               /\ UNCHANGED main_pc
    /\ UNCHANGED <<entries, current_index, file, wlock, health, panicked, hist, fixed>>

\* Lines 222-233: test_proxies ends with what the network decided, the write
\* guard on `proxies` is taken and the result installed.
LoadSwap ==
    /\ Alive
    /\ load.pc = "probe"
    /\ wlock = "none"
    /\ \E outcome \in ProbeOutcomes(load.cands) :
       \E order \in CollectOrders(load.cands, outcome) :
          LET valid == TestProxies(load.cands, outcome, order)
          IN  /\ entries' = valid
              /\ load' = [pc |-> "write", cands |-> <<>>, valid |-> valid,
                          before |-> entries]
    /\ wlock' = "load"
    /\ ret' = RetNone
    /\ hist' = HistNone
    /\ UNCHANGED <<current_index, file, main_pc, health, panicked, fixed>>

\* Lines 235-275: rewrite the file, start a health loop, return Ok; a failed
\* fs::write returns Err at once.  The write guard is dropped on return.
LoadWrite ==
    /\ Alive
    /\ load.pc = "write"
    /\ \E write_ok \in BOOLEAN :
          IF write_ok
          THEN /\ file' = JoinLines(Addresses(load.valid))
               /\ health' = StartHealthCheck(health)
               /\ LoadReturn("ok")
               /\ UNCHANGED write_failed
          ELSE /\ LoadReturn("err")
               /\ write_failed' = TRUE
               /\ UNCHANGED <<file, health>>
    /\ load' = LoadIdle
    /\ wlock' = "none"
    /\ UNCHANGED <<entries, current_index, panicked, hist, steady>>

\* main, line 108: the startup flow starts a health loop of its own.
MainStartHealth ==
    /\ main_pc = "start_health"
    /\ health' = StartHealthCheck(health)
    /\ main_pc' = "console"
    /\ ret' = RetNone
    /\ UNCHANGED <<entries, current_index, file, wlock, load, panicked, hist, fixed>>

(* --------------------------------------------------------------- health loop *)

Replace(h, old, new) == (h (-) SetToBag({old})) (+) SetToBag({new})

\* Lines 287-297: after the sleep, copy `proxies` under the read guard; an
\* empty pool sends the loop back to sleep.
HealthSnapshot ==
    /\ Alive
    /\ wlock = "none"
    /\ \E t \in BagToSet(health) :
          /\ t.pc = "sleep"
          /\ IF entries = <<>>
             THEN UNCHANGED health
             ELSE health' = Replace(health, t,
                      [pc |-> "probe", cands |-> entries, valid |-> <<>>])
    /\ ret' = RetNone
    /\ UNCHANGED <<entries, current_index, file, wlock, main_pc, load,
                   panicked, hist, fixed>>

\* A health swap whose write guard is dropped before the file is written.
HealthSwapUnguarded ==
    /\ Alive
    /\ wlock = "none"
    /\ \E t \in BagToSet(health) :
          /\ t.pc = "probe"
          /\ \E outcome \in ProbeOutcomes(t.cands) :
             \E order \in CollectOrders(t.cands, outcome) :
                LET valid == TestProxies(Addresses(t.cands), outcome, order)
                IN  /\ entries' = valid
                    /\ health' = Replace(health, t,
                           [pc |-> "write", cands |-> <<>>, valid |-> valid])
    /\ wlock' = "none"
    /\ ret' = RetNone
    /\ hist' = HistNone
    /\ UNCHANGED <<current_index, file, main_pc, load, panicked, fixed>>

\* Lines 300-311: test_proxies over the snapshot (each_item hands over the
\* entry's address; a surviving entry is the old one with the new latency),
\* then the swap under the write guard.
HealthSwap ==
    /\ Alive
    /\ wlock = "none"
    /\ \E t \in BagToSet(health) :
          /\ t.pc = "probe"
          /\ \E outcome \in ProbeOutcomes(t.cands) :
             \E order \in CollectOrders(t.cands, outcome) :
                LET valid == TestProxies(Addresses(t.cands), outcome, order)
                IN  /\ entries' = valid
                    /\ health' = Replace(health, t,
                           [pc |-> "write", cands |-> <<>>, valid |-> valid])
    /\ wlock' = "health"
    /\ ret' = RetNone
    /\ hist' = HistNone
    /\ UNCHANGED <<current_index, file, main_pc, load, panicked, fixed>>

\* A health cycle that rewrites the file whatever survived.
HealthWriteAlways ==
    /\ Alive
    /\ \E t \in BagToSet(health) :
          /\ t.pc = "write"
          /\ health' = Replace(health, t, HealthAsleep)
          /\ \E write_ok \in BOOLEAN :
                /\ file' = IF write_ok THEN JoinLines(Addresses(t.valid)) ELSE file
                /\ write_failed' = (write_failed \/ ~write_ok)
    /\ wlock' = "none"
    /\ ret' = RetNone
    /\ UNCHANGED <<entries, current_index, main_pc, load, panicked, hist, steady>>

\* Lines 313-329: rewrite the file when something survived (a failed write is
\* logged), drop the write guard at the end of the iteration, sleep again.
HealthWrite ==
    /\ Alive
    /\ \E t \in BagToSet(health) :
          /\ t.pc = "write"
          /\ health' = Replace(health, t, HealthAsleep)
          /\ IF t.valid # <<>>
             THEN \E write_ok \in BOOLEAN :
                     /\ file' = IF write_ok THEN JoinLines(Addresses(t.valid)) ELSE file
                     /\ write_failed' = (write_failed \/ ~write_ok)
             ELSE UNCHANGED <<file, write_failed>>
    /\ wlock' = "none"
    /\ ret' = RetNone
    /\ UNCHANGED <<entries, current_index, main_pc, load, panicked, hist, steady>>

(* ------------------------------------------------- the pool guard by guard *)

\* tokio::sync::RwLock is fair and write-preferring: requests are served in
\* the order they were made, so a read request made while a write request
\* waits queues behind it.  A lock is the tasks holding a read guard, the
\* task holding the write guard, and the queue of waiting requests.
Unlocked == [readers |-> {}, writer |-> "none", queue |-> <<>>]

\* The request at the head of the queue is granted as soon as the guards
\* held allow it, and so on down the queue.
RECURSIVE Grant(_)
Grant(l) ==
    IF l.queue = <<>> \/ l.writer # "none" THEN l
    ELSE LET h == Head(l.queue)
         IN  IF h.mode = "read"
             THEN Grant([l EXCEPT !.readers = @ \cup {h.task}, !.queue = Tail(@)])
             ELSE IF l.readers = {}
             THEN [l EXCEPT !.writer = h.task, !.queue = Tail(@)]
             ELSE l

\* lock.read() / lock.write(): the request joins the queue.
Request(l, t, mode) == Grant([l EXCEPT !.queue = Append(@, [task |-> t, mode |-> mode])])

\* A guard is dropped.
Release(l, t) ==
    Grant([l EXCEPT !.readers = @ \ {t},
                    !.writer = IF @ = t THEN "none" ELSE @])

Holds(l, t) == t \in l.readers \/ l.writer = t
HoldsWrite(l, t) == l.writer = t
Waits(l, t) == \E i \in 1..Len(l.queue) : l.queue[i].task = t

\* The tasks that call the pool: a client session (get_current_proxy), the
\* auto-switch ticker (next_proxy), the console (next, goto, show, list,
\* ping) and a health loop (its swap).
Tasks == {"session", "ticker", "console", "health"}
OpsOf(t) ==
    CASE t = "session" -> {"get"}
      [] t = "ticker" -> {"next"}
      [] t = "console" -> {"next", "choose", "get", "list", "swap"}
      [] t = "health" -> {"swap"}

\* A call: the operation, where it stands ("idle", "first": its first guard
\* requested, "second": its second guard requested, "body": every guard
\* held and the index read or written, "returned"), its argument, the index
\* it read, what it returned, and (history) what the operation applied in
\* one step to the pool returned when the call took effect.
CallIdle == [op |-> "none", pc |-> "idle", arg |-> 0, index |-> 0, val |-> None, lin |-> None]

Called(op, arg) == [CallIdle EXCEPT !.op = op, !.arg = arg, !.pc = "first"]

\* What a swap may install.
SwapPools ==
    {es \in SeqsUpTo([address : Address, latency : {1}], MaxAddr) :
        \A i, j \in 1..Len(es) : es[i].address = es[j].address => i = j}

\* A call starts and asks for its first guard: proxies.read() in
\* get_current_proxy (334), choose_proxy (352) and list_proxies (364),
\* current_index.write() in next_proxy (340), proxies.write() in the swaps
\* (232, 310).
PoolCall ==
    /\ \E t \in Tasks : \E op \in OpsOf(t), n \in 1..MaxArg :
          /\ calls[t].pc \in {"idle", "returned"}
          /\ op # "choose" => n = 1
          /\ calls' = [calls EXCEPT ![t] = Called(op, IF op = "choose" THEN n ELSE 0)]
          /\ IF op = "next"
             THEN /\ index_lock' = Request(index_lock, t, "write")
                  /\ UNCHANGED proxies_lock
             ELSE /\ proxies_lock' = Request(proxies_lock, t,
                                             IF op = "swap" THEN "write" ELSE "read")
                  /\ UNCHANGED index_lock
    /\ UNCHANGED <<entries, current_index, file, wlock, main_pc, load, health,
                   panicked, ret, hist, config, sess, listener, tester, write_failed>>

\* The first guard is granted and the second asked for: current_index.read()
\* in get_current_proxy (335), proxies.read() in next_proxy (341),
\* current_index.write() in choose_proxy (353).
SecondGuard ==
    /\ \E t \in Tasks :
          /\ calls[t].pc = "first"
          /\ calls[t].op \in {"get", "next", "choose"}
          /\ calls' = [calls EXCEPT ![t].pc = "second"]
          /\ IF calls[t].op = "next"
             THEN /\ Holds(index_lock, t)
                  /\ proxies_lock' = Request(proxies_lock, t, "read")
                  /\ UNCHANGED index_lock
             ELSE /\ Holds(proxies_lock, t)
                  /\ index_lock' = Request(index_lock, t,
                                           IF calls[t].op = "get" THEN "read" ELSE "write")
                  /\ UNCHANGED proxies_lock
    /\ UNCHANGED <<entries, current_index, file, wlock, main_pc, load, health,
                   panicked, ret, hist, config, sess, listener, tester, write_failed>>

\* A get_current_proxy that drops its guard on proxies once it has read the
\* index.
GetReadIndexDropsBoth ==
    /\ \E t \in Tasks :
          /\ calls[t].pc = "second"
          /\ calls[t].op = "get"
          /\ Holds(index_lock, t)
          /\ calls' = [calls EXCEPT ![t].pc = "body",
                                    ![t].index = current_index,
                                    ![t].lin = GetCurrent(entries, current_index)]
          /\ index_lock' = Release(index_lock, t)
          /\ proxies_lock' = Release(proxies_lock, t)
    /\ UNCHANGED <<entries, current_index, file, wlock, main_pc, load, health,
                   panicked, ret, hist, config, sess, listener, tester, write_failed>>

\* get_current_proxy, line 335: the index is copied out under the read
\* guard on current_index, which is dropped at the end of the statement.
GetReadIndex ==
    /\ \E t \in Tasks :
          /\ calls[t].pc = "second"
          /\ calls[t].op = "get"
          /\ Holds(index_lock, t)
          /\ calls' = [calls EXCEPT ![t].pc = "body",
                                    ![t].index = current_index,
                                    ![t].lin = GetCurrent(entries, current_index)]
          /\ index_lock' = Release(index_lock, t)
    /\ UNCHANGED <<entries, current_index, proxies_lock, file, wlock, main_pc, load,
                   health, panicked, ret, hist, config, sess, listener, tester, write_failed>>

\* get_current_proxy, lines 336-337: proxies.get(index).cloned(), and the
\* guard on proxies is dropped.
GetReturn ==
    /\ \E t \in Tasks :
          /\ calls[t].pc = "body"
          /\ calls[t].op = "get"
          /\ calls' = [calls EXCEPT ![t].pc = "returned",
                                    ![t].val = GetCurrent(entries, calls[t].index)]
          /\ proxies_lock' = Release(proxies_lock, t)
    /\ UNCHANGED <<entries, current_index, index_lock, file, wlock, main_pc, load,
                   health, panicked, ret, hist, config, sess, listener, tester, write_failed>>

\* next_proxy, lines 343-347, and choose_proxy, lines 355-359, with both
\* guards held: an empty pool returns None and drops the guards, otherwise
\* the index is written.
WriteIndex ==
    /\ \E t \in Tasks :
          /\ calls[t].pc = "second"
          /\ calls[t].op \in {"next", "choose"}
          /\ Holds(index_lock, t)
          /\ Holds(proxies_lock, t)
          /\ IF entries = <<>>
             THEN /\ calls' = [calls EXCEPT ![t].pc = "returned"]
                  /\ index_lock' = Release(index_lock, t)
                  /\ proxies_lock' = Release(proxies_lock, t)
                  /\ UNCHANGED current_index
             ELSE /\ current_index' =
                        IF calls[t].op = "next"
                        THEN NextIndex(current_index, Len(entries))
                        ELSE ChooseIndex(calls[t].arg, Len(entries))
                  /\ calls' = [calls EXCEPT ![t].pc = "body",
                                            ![t].lin = GetCurrent(entries, current_index')]
                  /\ UNCHANGED <<index_lock, proxies_lock>>
    /\ UNCHANGED <<entries, file, wlock, main_pc, load, health,
                   panicked, ret, hist, config, sess, listener, tester, write_failed>>

\* next_proxy, line 348, and choose_proxy, line 360:
\* proxies.get(*index).cloned(), and both guards are dropped.
WriteReturn ==
    /\ \E t \in Tasks :
          /\ calls[t].pc = "body"
          /\ calls[t].op \in {"next", "choose"}
          /\ calls' = [calls EXCEPT ![t].pc = "returned",
                                    ![t].val = GetCurrent(entries, current_index)]
          /\ index_lock' = Release(index_lock, t)
          /\ proxies_lock' = Release(proxies_lock, t)
    /\ UNCHANGED <<entries, current_index, file, wlock, main_pc, load, health,
                   panicked, ret, hist, config, sess, listener, tester, write_failed>>

\* list_proxies, line 364: clone under the read guard.  The value returned
\* is kept as its addresses.
ListReturn ==
    /\ \E t \in Tasks :
          /\ calls[t].pc = "first"
          /\ calls[t].op = "list"
          /\ Holds(proxies_lock, t)
          /\ calls' = [calls EXCEPT ![t].pc = "returned",
                                    ![t].val = Some(Addresses(entries)),
                                    ![t].lin = Some(Addresses(entries))]
          /\ proxies_lock' = Release(proxies_lock, t)
    /\ UNCHANGED <<entries, current_index, index_lock, file, wlock, main_pc, load,
                   health, panicked, ret, hist, config, sess, listener, tester, write_failed>>

\* The swap of load_from_file (232-233) and of the health loop (310-311)
\* under the write guard: `proxies` is replaced, current_index is not
\* touched.
SwapAssign ==
    /\ \E t \in Tasks :
          /\ calls[t].pc = "first"
          /\ calls[t].op = "swap"
          /\ Holds(proxies_lock, t)
          /\ calls' = [calls EXCEPT ![t].pc = "body"]
          /\ \E new \in SwapPools : entries' = new
    /\ UNCHANGED <<current_index, proxies_lock, index_lock, file, wlock, main_pc, load,
                   health, panicked, ret, hist, config, sess, listener, tester, write_failed>>

\* Lines 235-275 and 313-329: the file is written and the write guard
\* dropped at the end of the function or of the iteration.
SwapReturn ==
    /\ \E t \in Tasks :
          /\ calls[t].pc = "body"
          /\ calls[t].op = "swap"
          /\ calls' = [calls EXCEPT ![t].pc = "returned"]
          /\ proxies_lock' = Release(proxies_lock, t)
    /\ UNCHANGED <<entries, current_index, index_lock, file, wlock, main_pc, load,
                   health, panicked, ret, hist, config, sess, listener, tester, write_failed>>

(* ------------------------------------------------------------ SOCKS5 session *)

\* config.proxy.username and config.proxy.password
ConfigUsername == "u"
ConfigPassword == "p"

\* A byte string that is no UTF-8.
NotUtf8 == "\\xff"

\* What a client may send as user name and as password.
Names == {"u", "p", NotUtf8}

\* The peer hangs up before the message is complete: read_exact fails.
EOF == [eof |-> TRUE]

\* The method selection message: VER and the methods offered (the code only
\* asks whether a method is among them).
Greetings == [ver : {4, 5}, methods : SUBSET {0, 1, 2}]

\* The RFC 1929 message: VER, UNAME, PASSWD.
AuthMessages == [ver : {1, 2}, username : Names, password : Names]

\* Replies to the client.
MethodReply(m) == <<5, m>>
AuthReply(status) == <<1, status>>
ConnectReply(rep) == <<5, rep, 0, 1, 0, 0, 0, 0, 0, 0>>

\* handle_connection, lines 153-157 and 206-210: host unreachable.
ConnectFailedReply == ConnectReply(4)

\* The reply of lines 266-270 with REP = 0x04 in place of 0x01.
EmptyPoolReplyUnreachable == ConnectReply(4)

\* handle_connection, lines 266-270: general failure.
EmptyPoolReply == ConnectReply(1)

\* handle_connection, lines 236-240
SuccessReply == ConnectReply(0)

\* A domain of the greatest length the length byte can state.
LongDomain == [i \in 1..255 |-> 97]

\* The address of a request as ATYP shapes it (a domain without its length
\* byte).  A domain holding byte 255 is no UTF-8.
AddrBytes(atyp) ==
    CASE atyp = 1 -> {<<127, 0, 0, 1>>, <<10, 0, 9, 255>>}
      [] atyp = 3 -> {<<>>, <<97, 46, 98>>, <<49, 46, 50>>, <<255>>, LongDomain}
      [] atyp = 4 -> {[i \in 1..16 |-> 0]}
      [] OTHER -> {<<>>}

PortBytes == {<<0, 80>>, <<31, 144>>}

\* The requests a client may send: VER, CMD, ATYP, DST.ADDR, DST.PORT.
Requests ==
    UNION {[ver : {4, 5}, cmd : {1, 2}, atyp : {t}, addr : AddrBytes(t), port : PortBytes] :
              t \in {1, 3, 4, 5}}

\* String::from_utf8 on the bytes the model uses: ASCII is UTF-8, 0xFF is not.
\* What the client of the session sends as its method selection and as its
\* request, and what the upstream answers: anything, or (plain peers) a
\* no-auth CONNECT to a domain, answered by an upstream that takes or
\* refuses the method and the request.
ClientGreetings ==
    IF peers = "any" THEN Greetings \cup {EOF} ELSE {[ver |-> 5, methods |-> {0}]}

ClientRequests ==
    IF peers = "any" THEN Requests \cup {EOF}
    ELSE {[ver |-> 5, cmd |-> 1, atyp |-> 3, addr |-> <<97, 46, 98>>, port |-> <<0, 80>>]}

IsUtf8(bytes) == \A i \in 1..Len(bytes) : bytes[i] < 128

\* read_u16 and u16::to_be_bytes
ReadU16(b) == b[1] * 256 + b[2]

\* u16::to_le_bytes
ToLeBytes(p) == <<p % 256, p \div 256>>

ToBeBytes(p) == <<p \div 256, p % 256>>

\* A number as format!("{}") writes it: decimal digits, as characters.
RECURSIVE Decimal(_)
Decimal(n) == IF n < 10 THEN <<48 + n>> ELSE Decimal(n \div 10) \o <<48 + (n % 10)>>

\* handle_connection, line 123: format!("{}.{}.{}.{}", ...)
FormatIPv4(addr) ==
    Decimal(addr[1]) \o <<46>> \o Decimal(addr[2]) \o <<46>> \o
    Decimal(addr[3]) \o <<46>> \o Decimal(addr[4])

\* str::split('.')
RECURSIVE SplitDots(_)
SplitDots(s) ==
    IF \E i \in 1..Len(s) : s[i] = 46
    THEN LET i == CHOOSE k \in 1..Len(s) : s[k] = 46 /\ \A j \in 1..(k - 1) : s[j] # 46
         IN  <<SubSeq(s, 1, i - 1)>> \o SplitDots(SubSeq(s, i + 1, Len(s)))
    ELSE <<s>>

RECURSIVE DigitsValue(_)
DigitsValue(d) ==
    IF d = <<>> THEN 0
    ELSE DigitsValue(SubSeq(d, 1, Len(d) - 1)) * 10 + (d[Len(d)] - 48)

\* str::parse::<u8> on what split hands it: decimal digits of a value up to
\* 255; anything else is an error, -1 here.
ParseU8(d) ==
    IF d # <<>> /\ (\A i \in 1..Len(d) : d[i] \in 48..57) /\ DigitsValue(d) <= 255
    THEN DigitsValue(d)
    ELSE -1

\* The octets line 180-182 pushes.
Octets(target_addr) ==
    [i \in 1..Len(SplitDots(target_addr)) |-> ParseU8(SplitDots(target_addr)[i])]

\* str::parse::<SocketAddr>: an upstream given by a host name does not parse.
\* Address 1 stands for such an upstream, the others for ip:port.
IsSocketAddr(a) == a # 1

\* The two tokio::io::copy futures of the relay: not created, copying, ended
\* with EOF (Ok) or with an error, or dropped unfinished; and how many
\* chunks each has moved.
Directions == {"c2u", "u2c"}
Other(dir) == IF dir = "c2u" THEN "u2c" ELSE "c2u"
RelayOff == [c2u |-> "off", u2c |-> "off", moved |-> [d \in Directions |-> 0]]
RelayCopying == [RelayOff EXCEPT !.c2u = "copying", !.u2c = "copying"]

SessIdle ==
    [st |-> "idle", path |-> <<>>, out |-> <<>>, greeting |-> None, auth |-> None,
     request |-> None, consumed |-> 0, target_addr |-> <<>>, port |-> 0,
     pool_calls |-> 0, proxy |-> None, connects |-> 0, peer |-> None,
     up |-> <<>>, ureply |-> None, up_read |-> 0,
     open |-> {}, relay |-> RelayOff]

\* The sockets handle_connection owns in state st: the client's stream from
\* the start, the upstream's from a successful connect; all of them are
\* dropped when the function returns.
Sockets(open, st) ==
    CASE st = "closed" -> {}
      [] st = "negotiation" -> {"client"}
      [] st = "upstream_neg" -> open \cup {"upstream"}
      [] OTHER -> open

\* The session moves to state st; entering the relay creates the two copies.
Goto(s, st) ==
    [s EXCEPT !.st = st, !.path = Append(s.path, st),
              !.open = Sockets(s.open, st),
              !.relay = IF st = "relay" THEN RelayCopying ELSE s.relay]
Reply(s, bytes) == [s EXCEPT !.out = Append(s.out, bytes)]

ListenerIdle == [pc |-> "unbound", accepted |-> 0, errors |-> 0]

\* SocksServer::run, line 75: bind; a failure ends run before its loop.
ServerBind ==
    /\ Alive
    /\ main_pc = "console"
    /\ listener.pc = "unbound"
    /\ \E bound \in BOOLEAN :
          listener' = [listener EXCEPT !.pc = IF bound THEN "accepting" ELSE "failed"]
    /\ UNCHANGED <<poolside, sess>>

\* SocksServer::run, lines 79-93: accept and spawn handle_connection.  The
\* model follows one session at a time: a connection accepted while that
\* one is under way is counted and not followed.
SessAccept ==
    /\ Alive
    /\ listener.pc = "accepting"
    /\ listener.accepted < MaxSessions
    /\ listener' = [listener EXCEPT !.accepted = listener.accepted + 1]
    /\ sess' = IF sess.st \in {"idle", "closed"} THEN Goto(SessIdle, "negotiation") ELSE sess
    /\ UNCHANGED poolside

\* An accept error that leaves the loop.
AcceptErrorExits ==
    /\ Alive
    /\ listener.pc = "accepting"
    /\ listener.errors < MaxAcceptErrors
    /\ listener' = [listener EXCEPT !.pc = "exited", !.errors = listener.errors + 1]
    /\ UNCHANGED <<poolside, sess>>

\* SocksServer::run, lines 94-98: an accept error is logged, the loop goes on.
AcceptError ==
    /\ Alive
    /\ listener.pc = "accepting"
    /\ listener.errors < MaxAcceptErrors
    /\ listener' = [listener EXCEPT !.errors = listener.errors + 1]
    /\ UNCHANGED <<poolside, sess>>

\* username == config.username || password == config.password
CredentialsMatchEither(username, password) ==
    username = ConfigUsername \/ password = ConfigPassword

\* handle_handshake, line 327
CredentialsMatch(username, password) ==
    username = ConfigUsername /\ password = ConfigPassword

\* handle_handshake, lines 286-304 and 337-347: read the method selection
\* and answer it.  A client that hangs up makes read_exact fail.
SessNegotiate ==
    /\ Alive
    /\ sess.st = "negotiation"
    /\ \E g \in ClientGreetings :
          sess' =
             IF g = EOF THEN Goto(sess, "closed")
             ELSE LET s == [sess EXCEPT !.greeting = Some(g)]
                  IN  IF g.ver # 5 THEN Goto(s, "closed")
                      ELSE IF use_auth
                      THEN IF 2 \in g.methods
                           THEN Goto(Reply(s, MethodReply(2)), "auth")
                           ELSE Goto(Reply(s, MethodReply(255)), "closed")
                      ELSE Goto(Reply(s, MethodReply(0)), "request")
    /\ UNCHANGED serverside

\* handle_handshake, lines 306-336: the user name / password exchange.
SessAuth ==
    /\ Alive
    /\ sess.st = "auth"
    /\ \E a \in AuthMessages \cup {EOF} :
          sess' =
             IF a = EOF THEN Goto(sess, "closed")
             ELSE LET s == [sess EXCEPT !.auth = Some(a)]
                  IN  IF a.ver # 1 THEN Goto(s, "closed")
                      ELSE IF a.username = NotUtf8 \/ a.password = NotUtf8
                      THEN Goto(s, "closed")
                      ELSE IF CredentialsMatch(a.username, a.password)
                      THEN Goto(Reply(s, AuthReply(0)), "request")
                      ELSE Goto(Reply(s, AuthReply(1)), "closed")
    /\ UNCHANGED serverside

\* The address arms without the IPv6 one: type 4 falls to the last arm.
RequestAddrLenNoIPv6(r) ==
    CASE r.atyp = 1 -> 4
      [] r.atyp = 3 -> 1 + Len(r.addr)
      [] OTHER -> 0

\* handle_connection, lines 119-137: the address bytes each arm reads.
RequestAddrLen(r) ==
    CASE r.atyp = 1 -> 4
      [] r.atyp = 3 -> 1 + Len(r.addr)
      [] r.atyp = 4 -> 16
      [] OTHER -> 0

\* VER = 0x05 is enough, whatever CMD says.
RequestAcceptedAnyCmd(r) == r.ver = 5

\* handle_connection, line 113
RequestAccepted(r) == r.ver = 5 /\ r.cmd = 1

\* handle_connection, lines 109-141: read and decode the request.  consumed
\* counts the bytes of the request taken off the client's stream.
SessRequest ==
    /\ Alive
    /\ sess.st = "request"
    /\ \E r \in ClientRequests :
          sess' =
             IF r = EOF THEN Goto(sess, "closed")
             ELSE LET s == [sess EXCEPT !.request = Some(r), !.consumed = 4]
                  IN  IF ~RequestAccepted(r) THEN Goto(s, "closed")
                      ELSE IF r.atyp = 1
                      THEN Goto([s EXCEPT !.consumed = 4 + RequestAddrLen(r) + 2,
                                          !.target_addr = FormatIPv4(r.addr),
                                          !.port = ReadU16(r.port)], "select")
                      ELSE IF r.atyp = 3
                      THEN IF IsUtf8(r.addr)
                           THEN Goto([s EXCEPT !.consumed = 4 + RequestAddrLen(r) + 2,
                                               !.target_addr = r.addr,
                                               !.port = ReadU16(r.port)], "select")
                           ELSE Goto([s EXCEPT !.consumed = 4 + RequestAddrLen(r)], "closed")
                      ELSE IF r.atyp = 4
                      THEN Goto([s EXCEPT !.consumed = 4 + RequestAddrLen(r)], "closed")
                      ELSE Goto(s, "closed")
    /\ UNCHANGED serverside

\* handle_connection, lines 143-161 and 264-275: get_current_proxy, parse
\* the upstream's address and connect to it.
SessSelect ==
    /\ Alive
    /\ sess.st = "select"
    /\ wlock = "none"
    /\ LET proxy == GetCurrent(entries, current_index)
           s == [sess EXCEPT !.pool_calls = sess.pool_calls + 1, !.proxy = proxy]
       IN  IF proxy = None
           THEN sess' = Goto(Reply(s, EmptyPoolReply), "closed")
           ELSE IF ~IsSocketAddr(proxy[1].address)
           THEN sess' = Goto(s, "closed")
           ELSE \E connected \in BOOLEAN :
                   LET c == [s EXCEPT !.connects = s.connects + 1,
                                      !.peer = Some(proxy[1].address)]
                   IN  sess' = IF connected
                               THEN Goto(c, "upstream_neg")
                               ELSE Goto(Reply(c, ConnectFailedReply), "closed")
    /\ UNCHANGED serverside

\* What an upstream may answer to the method selection; <<5>> is an answer
\* cut short, on which read_exact fails.
UpstreamMethodReplies ==
    IF peers = "any" THEN {<<5, 0>>, <<5, 255>>, <<4, 0>>, <<5>>} ELSE {<<5, 0>>, <<5, 255>>}

\* An upstream that refuses sends the session back to pick another one.
SessUpstreamNegotiateRetry ==
    /\ Alive
    /\ sess.st = "upstream_neg"
    /\ \E m \in UpstreamMethodReplies :
          LET s == [sess EXCEPT !.up = Append(sess.up, <<5, 1, 0>>)]
          IN  sess' = IF m = <<5, 0>> THEN Goto(s, "upstream_req") ELSE Goto(s, "select")
    /\ UNCHANGED serverside

\* handle_connection, lines 163-171: the handshake with the upstream.
SessUpstreamNegotiate ==
    /\ Alive
    /\ sess.st = "upstream_neg"
    /\ \E m \in UpstreamMethodReplies :
          LET s == [sess EXCEPT !.up = Append(sess.up, <<5, 1, 0>>)]
          IN  sess' = IF m = <<5, 0>> THEN Goto(s, "upstream_req") ELSE Goto(s, "closed")
    /\ UNCHANGED serverside

\* handle_connection, lines 173-193: the request as rebuilt for the upstream
\* from atyp, target_addr and port.
UpstreamRequest(atyp, target_addr, port) ==
    <<5, 1, 0>> \o
    (IF atyp = 1
     THEN <<1>> \o Octets(target_addr)
     ELSE <<3, Len(target_addr) % 256>> \o target_addr) \o
    ToBeBytes(port)

\* handle_connection, lines 177-196: an octet that does not parse ends the
\* session, and so does a failed write.
SessUpstreamRequest ==
    /\ Alive
    /\ sess.st = "upstream_req"
    /\ LET atyp == sess.request[1].atyp
       IN  IF atyp = 1 /\ \E i \in 1..Len(Octets(sess.target_addr)) : Octets(sess.target_addr)[i] = -1
           THEN sess' = Goto(sess, "closed")
           ELSE \E written \in BOOLEAN :
                   sess' = IF written
                           THEN Goto([sess EXCEPT !.up = Append(sess.up,
                                         UpstreamRequest(atyp, sess.target_addr, sess.port))],
                                     "upstream_reply")
                           ELSE Goto(sess, "closed")
    /\ UNCHANGED serverside

\* BND.ADDR as ATYP shapes it on the wire (a domain with its length byte).
BoundAddrs(atyp) ==
    CASE atyp = 1 -> {<<0, 0, 0, 0>>}
      [] atyp = 3 -> {<<0>>, <<2, 97, 98>>}
      [] atyp = 4 -> {[i \in 1..16 |-> 0]}
      [] OTHER -> {<<>>}

\* The bytes an upstream may send as its reply before it falls silent: a
\* whole reply, one that lacks its last byte, or a header cut short.
UpstreamReplies ==
    IF peers = "any"
    THEN {<<5, 0>>} \cup
         UNION {{<<ver, rep, 0, atyp>> \o a \o <<0, 0>>, <<ver, rep, 0, atyp>> \o a \o <<0>>} :
                   <<ver, rep, atyp, a>> \in
                      UNION {{4, 5} \X {0, 1} \X {t} \X BoundAddrs(t) : t \in {1, 3, 4, 5}}}
    ELSE {<<5, 0, 0, 1, 0, 0, 0, 0, 0, 0>>, <<5, 1, 0, 1, 0, 0, 0, 0, 0, 0>>}

\* No REP is a refusal.
UpstreamRefusedNever(u) == FALSE

\* handle_connection, line 202
UpstreamRefused(u) == u[2] # 0

\* handle_connection, lines 216-233: the bytes of BND.ADDR and BND.PORT to
\* read after the 4 header bytes; -1 for an address type the code rejects.
BoundLen(u) ==
    CASE u[4] = 1 -> 4 + 2
      [] u[4] = 3 -> IF Len(u) >= 5 THEN 1 + u[5] + 2 ELSE 1
      [] u[4] = 4 -> 16 + 2
      [] OTHER -> -1

\* handle_connection, lines 198-241: read the upstream's reply and answer
\* the client.  up_read counts the bytes of the reply taken off the
\* upstream's stream.
SessUpstreamReply ==
    /\ Alive
    /\ sess.st = "upstream_reply"
    /\ \E u \in UpstreamReplies :
          LET s == [sess EXCEPT !.ureply = Some(u)]
          IN  sess' =
                 IF Len(u) < 4 THEN Goto([s EXCEPT !.up_read = Len(u)], "closed")
                 ELSE IF UpstreamRefused(u)
                 THEN Goto(Reply([s EXCEPT !.up_read = 4], ConnectFailedReply), "closed")
                 ELSE IF BoundLen(u) = -1
                 THEN Goto([s EXCEPT !.up_read = 4], "closed")
                 ELSE IF Len(u) < 4 + BoundLen(u)
                 THEN Goto([s EXCEPT !.up_read = Len(u)], "closed")
                 ELSE Goto(Reply([s EXCEPT !.up_read = 4 + BoundLen(u)], SuccessReply), "relay")
    /\ UNCHANGED serverside

\* handle_connection, lines 245-248: a copy moves what it has read to the
\* other socket.
SessRelayCopy ==
    /\ Alive
    /\ sess.st = "relay"
    /\ \E dir \in Directions :
          /\ sess.relay[dir] = "copying"
          /\ sess.relay.moved[dir] < MaxRelayed
          /\ sess' = [sess EXCEPT !.relay.moved[dir] = @ + 1]
    /\ UNCHANGED serverside

\* A relay that lets the other copy go on after one has ended, and returns
\* when both have.
SessRelayEndHalfClose ==
    /\ Alive
    /\ sess.st = "relay"
    /\ \E dir \in Directions, how \in {"eof", "err"} :
          /\ sess.relay[dir] = "copying"
          /\ LET s == [sess EXCEPT !.relay[dir] = how]
             IN  sess' = IF s.relay[Other(dir)] = "copying" THEN s ELSE Goto(s, "closed")
    /\ UNCHANGED serverside

\* handle_connection, lines 248-277: select! returns when one of the copies
\* ends, with Ok at EOF or with Err; the other copy is dropped with the
\* select, the result is at most logged and the function returns Ok.
SessRelayEnd ==
    /\ Alive
    /\ sess.st = "relay"
    /\ \E dir \in Directions, how \in {"eof", "err"} :
          /\ sess.relay[dir] = "copying"
          /\ sess' = Goto([sess EXCEPT !.relay[dir] = how,
                                       !.relay[Other(dir)] = "dropped"], "closed")
    /\ UNCHANGED serverside

(* ------------------------------------------------------------- specification *)

\* The file as main finds it before the first load: any lines.
InitialFiles == SeqsUpTo(RawLine, MaxLines)

\* ProxyPool::new and SocksServer::new: an empty pool at index 0.
Init ==
    /\ entries = <<>>
    /\ current_index = 0
    /\ file \in InitialFiles
    /\ wlock = "none"
    /\ main_pc = "boot"
    /\ load = LoadIdle
    /\ health = EmptyBag
    /\ auto_switch \in BOOLEAN
    /\ overflow_checks \in BOOLEAN
    /\ panicked = FALSE
    /\ use_auth = FALSE
    /\ sess = SessIdle
    /\ tester = TesterIdle
    /\ proxies_lock = Unlocked
    /\ index_lock = Unlocked
    /\ calls = [t \in Tasks |-> CallIdle]
    /\ listener = ListenerIdle
    /\ peers = "any"
    /\ observe = FALSE
    /\ ret = RetNone
    /\ hist = HistNone
    /\ write_failed = FALSE

Next ==
    \/ LoadRead
    \/ LoadSwap
    \/ LoadWrite
    \/ MainStartHealth
    \/ ConsoleNext
    \/ ConsoleShow
    \/ ConsoleList
    \/ ConsoleGoto
    \/ ConsoleQuit
    \/ AutoSwitchTick
    \/ HealthSnapshot
    \/ HealthSwap
    \/ HealthWrite

\* The whole life cycle of the pool, from construction on.
Spec == Init /\ [][Next]_vars

(* ------------------------------------ the selection calls on a fixed pool *)

IsSorted(es) == \A i \in 1..(Len(es) - 1) : es[i].latency <= es[i + 1].latency
IsUnique(es) == \A i, j \in 1..Len(es) : es[i].address = es[j].address => i = j

\* The pools a load can leave behind over the addresses 1..n.
PoolsOver(n) ==
    {es \in SeqsUpTo([address : 1..n, latency : Latency], n) :
        IsSorted(es) /\ IsUnique(es)}

\* The console is at its prompt after a startup that loaded some pool; no
\* load or health cycle is in flight.  current_index is whatever earlier
\* goto / next calls and shrinking health cycles left.
InitOps ==
    /\ entries \in PoolsOver(MaxPool)
    /\ current_index \in 0..(MaxPool - 1)
    /\ file = JoinLines(Addresses(entries))
    /\ wlock = "none"
    /\ main_pc = "console"
    /\ load = LoadIdle
    /\ health = StartHealthCheck(StartHealthCheck(EmptyBag))
    /\ auto_switch \in BOOLEAN
    /\ overflow_checks \in BOOLEAN
    /\ panicked = FALSE
    /\ use_auth = FALSE
    /\ sess = SessIdle
    /\ tester = TesterIdle
    /\ proxies_lock = Unlocked
    /\ index_lock = Unlocked
    /\ calls = [t \in Tasks |-> CallIdle]
    /\ listener = ListenerIdle
    /\ peers = "any"
    /\ observe = TRUE
    /\ ret = RetNone
    /\ hist = HistNone
    /\ write_failed = FALSE

NextOps ==
    \/ ConsoleNext
    \/ ConsoleShow
    \/ ConsoleList
    \/ ConsoleGoto
    \/ AutoSwitchTick

\* The selection calls, observed, while no load or health cycle changes the pool.
SpecOps == InitOps /\ [][NextOps]_vars

(* --------------------------------------------------- one session on a pool *)

\* The pools a session may meet; it never reads a latency.
SessionPools == {es \in PoolsOver(MaxAddr) : \A i \in 1..Len(es) : es[i].latency = 1}

\* The server is spawned after a startup that loaded some pool, with or
\* without authentication configured.
InitSession ==
    /\ entries \in SessionPools
    /\ current_index \in 0..(MaxAddr - 1)
    /\ file = JoinLines(Addresses(entries))
    /\ wlock = "none"
    /\ main_pc = "console"
    /\ load = LoadIdle
    /\ health = StartHealthCheck(StartHealthCheck(EmptyBag))
    /\ auto_switch = FALSE
    /\ overflow_checks = FALSE
    /\ panicked = FALSE
    /\ use_auth \in BOOLEAN
    /\ sess = SessIdle
    /\ tester = TesterIdle
    /\ proxies_lock = Unlocked
    /\ index_lock = Unlocked
    /\ calls = [t \in Tasks |-> CallIdle]
    /\ listener = ListenerIdle
    /\ peers = "any"
    /\ observe = FALSE
    /\ ret = RetNone
    /\ hist = HistNone
    /\ write_failed = FALSE

NextSession ==
    \/ ServerBind
    \/ AcceptError
    \/ SessAccept
    \/ SessNegotiate
    \/ SessAuth
    \/ SessRequest
    \/ SessSelect
    \/ SessUpstreamNegotiate
    \/ SessUpstreamRequest
    \/ SessUpstreamReply
    \/ SessRelayEnd

\* One client session from accept to close.
SpecSession == InitSession /\ [][NextSession]_vars

(* ------------------------------------- a session while the pool is changing *)

\* The server is accepting, no authentication is configured, and the last
\* connection of the run is yet to come; the two health loops of the
\* startup are asleep.  The client and the upstream are plain ones: what
\* varies in these runs is the pool under the session.
InitServe ==
    /\ entries \in SessionPools
    /\ current_index \in 0..(MaxAddr - 1)
    /\ file = JoinLines(Addresses(entries))
    /\ wlock = "none"
    /\ main_pc = "console"
    /\ load = LoadIdle
    /\ health = StartHealthCheck(StartHealthCheck(EmptyBag))
    /\ auto_switch \in BOOLEAN
    /\ overflow_checks = FALSE
    /\ panicked = FALSE
    /\ use_auth = FALSE
    /\ sess = SessIdle
    /\ tester = TesterIdle
    /\ proxies_lock = Unlocked
    /\ index_lock = Unlocked
    /\ calls = [t \in Tasks |-> CallIdle]
    /\ listener = [pc |-> "accepting", accepted |-> MaxSessions - 1, errors |-> 0]
    /\ peers = "plain"
    /\ observe = FALSE
    /\ ret = RetNone
    /\ hist = HistNone
    /\ write_failed = FALSE

NextServe ==
    \/ SessAccept
    \/ SessNegotiate
    \/ SessRequest
    \/ SessSelect
    \/ SessUpstreamNegotiate
    \/ SessUpstreamRequest
    \/ SessUpstreamReply
    \/ SessRelayEnd
    \/ ConsoleNext
    \/ ConsoleGoto
    \/ AutoSwitchTick
    \/ HealthSnapshot
    \/ HealthSwap
    \/ HealthWrite

\* One session from accept to close while the console, the ticker and the
\* health loops rotate and replace the pool.
SpecServe == InitServe /\ [][NextServe]_vars

(* ------------------------------------------------ sessions that relay data *)

\* The server is accepting, no authentication is configured and the pool
\* stays as the startup left it; plain clients connect one after the other
\* through plain upstreams, and data flows both ways until a side ends.
InitRelay ==
    /\ entries \in SessionPools
    /\ current_index \in 0..(MaxAddr - 1)
    /\ file = JoinLines(Addresses(entries))
    /\ wlock = "none"
    /\ main_pc = "console"
    /\ load = LoadIdle
    /\ health = EmptyBag
    /\ auto_switch = FALSE
    /\ overflow_checks = FALSE
    /\ panicked = FALSE
    /\ use_auth = FALSE
    /\ sess = SessIdle
    /\ tester = TesterIdle
    /\ proxies_lock = Unlocked
    /\ index_lock = Unlocked
    /\ calls = [t \in Tasks |-> CallIdle]
    /\ listener = [pc |-> "accepting", accepted |-> 0, errors |-> 0]
    /\ peers = "plain"
    /\ observe = FALSE
    /\ ret = RetNone
    /\ hist = HistNone
    /\ write_failed = FALSE

NextRelay ==
    \/ SessAccept
    \/ SessNegotiate
    \/ SessRequest
    \/ SessSelect
    \/ SessUpstreamNegotiate
    \/ SessUpstreamRequest
    \/ SessUpstreamReply
    \/ SessRelayCopy
    \/ SessRelayEnd

SpecRelay == InitRelay /\ [][NextRelay]_vars

(* -------------------------------------------------- one test_proxies call *)

\* test_proxies is called with any candidates (a load hands over distinct
\* addresses, a health cycle the pool's entries) under any
\* config.proxy.max_concurrency, a usize.
InitTester ==
    /\ entries = <<>>
    /\ current_index = 0
    /\ file = <<>>
    /\ wlock = "none"
    /\ main_pc = "console"
    /\ load = LoadIdle
    /\ health = EmptyBag
    /\ auto_switch = FALSE
    /\ overflow_checks = FALSE
    /\ panicked = FALSE
    /\ use_auth = FALSE
    /\ sess = SessIdle
    /\ listener = ListenerIdle
    /\ peers = "plain"
    /\ observe = FALSE
    /\ ret = RetNone
    /\ hist = HistNone
    /\ write_failed = FALSE
    /\ \E cands \in SeqsUpTo(Address, MaxPool), max_concurrency \in 0..MaxConcurrency :
          tester = TesterCalled(cands, max_concurrency)
    /\ proxies_lock = Unlocked
    /\ index_lock = Unlocked
    /\ calls = [t \in Tasks |-> CallIdle]

NextTester ==
    \/ TesterReturnEmpty
    \/ TesterSpawn
    \/ TaskAcquire
    \/ TaskProbeEnds
    \/ TaskPush
    \/ TesterJoin

SpecTester == InitTester /\ [][NextTester]_vars

(* ------------------------------------------------ pool calls guard by guard *)

\* The server runs after a startup that loaded some pool; no call is under
\* way.
InitLocks ==
    /\ entries \in SwapPools
    /\ current_index \in 0..(MaxAddr - 1)
    /\ file = JoinLines(Addresses(entries))
    /\ wlock = "none"
    /\ main_pc = "console"
    /\ load = LoadIdle
    /\ health = EmptyBag
    /\ auto_switch = TRUE
    /\ overflow_checks = FALSE
    /\ panicked = FALSE
    /\ use_auth = FALSE
    /\ sess = SessIdle
    /\ listener = ListenerIdle
    /\ peers = "plain"
    /\ observe = FALSE
    /\ ret = RetNone
    /\ hist = HistNone
    /\ write_failed = FALSE
    /\ tester = TesterIdle
    /\ proxies_lock = Unlocked
    /\ index_lock = Unlocked
    /\ calls = [t \in Tasks |-> CallIdle]

NextLocks ==
    \/ PoolCall
    \/ SecondGuard
    \/ GetReadIndex
    \/ GetReturn
    \/ WriteIndex
    \/ WriteReturn
    \/ ListReturn
    \/ SwapAssign
    \/ SwapReturn

SpecLocks == InitLocks /\ [][NextLocks]_vars

(* ------------------------------------------------------------------ claims *)

Entry(es, i) == Some(es[i + 1])

\* C1: in every state readers can see, a non-empty pool has
\* current_index < |entries|, so get_current_proxy returns an entry.
C1_IndexInRange ==
    (wlock = "none" /\ entries # <<>>) =>
        /\ current_index < Len(entries)
        /\ GetCurrent(entries, current_index) # None

\* C2: when a successful load_from_file returns, current_index is 0.
C2_LoadResetsIndex ==
    (ret.op = "load" /\ ret.out = "ok") => current_index = 0

\* C3: on a pool of n > 0 entries that does not change, k consecutive
\* next_proxy calls from index i leave current_index = (i + k) mod n, and the
\* last of them returned the entry at that index.
C3_RotationLaw ==
    hist.kind = "run" =>
        /\ entries # <<>>
        /\ current_index = (hist.i0 + hist.k) % Len(entries)
        /\ ret.op = "next" => ret.val = Entry(entries, (hist.i0 + hist.k) % Len(entries))

C3_Witness ==
    /\ hist.kind = "run"
    /\ hist.k = 3
    /\ Len(entries) = 2
    /\ hist.i0 = 2
    /\ ret.op = "next"

\* C4: on a non-empty pool, choose_proxy(n) with n >= 1 returns the entry at
\* position (n - 1) mod |entries|, and so does a get_current_proxy that
\* follows it with no change of the pool in between.
C4_SelectionLaw ==
    /\ (ret.op = "choose" /\ ret.arg >= 1 /\ entries # <<>>) =>
          /\ ret.out = "ret"
          /\ ret.val = Entry(entries, (ret.arg - 1) % Len(entries))
    /\ (ret.op = "get" /\ hist.kind = "sel" /\ hist.n >= 1) =>
          ret.val = Entry(entries, (hist.n - 1) % Len(entries))

C4_Witness ==
    /\ ret.op = "get"
    /\ hist.kind = "sel"
    /\ hist.n = 3
    /\ Len(entries) = 2

\* C5: choose_proxy(0) on a non-empty pool of n entries does not fault and
\* leaves current_index = n - 1.
C5_SelectZero ==
    (ret.op = "choose" /\ ret.arg = 0 /\ entries # <<>>) =>
        /\ ret.out = "ret"
        /\ ~panicked
        /\ current_index = Len(entries) - 1

\* C6: on an empty pool get_current_proxy, next_proxy and choose_proxy(n),
\* n = 0 included, return None, do not fault and leave entries and
\* current_index as they were.
C6_EmptyPoolSafe ==
    /\ [](entries = <<>> => (ret.val = None /\ ret.out = "ret" /\ ~panicked))
    /\ [][entries = <<>> => UNCHANGED <<entries, current_index, main_pc>>]_vars

C6_Witness ==
    /\ entries = <<>>
    /\ ret.op = "choose"
    /\ ret.arg = 0
    /\ overflow_checks
    /\ current_index = 2

\* C7: no address occurs twice in entries, whatever the file held.
C7_Uniqueness == IsUnique(entries)

\* A load has just installed an address that its file lists twice.
C7_Witness ==
    /\ load.pc = "write"
    /\ \E i, j \in 1..Len(file) :
          /\ i # j
          /\ file[i].addr = file[j].addr
          /\ \E k \in 1..Len(entries) : entries[k].address = file[i].addr

\* C8: entries is sorted by latency, lowest first.
C8_Order == IsSorted(entries)

\* A health cycle has just installed two entries of different latency.
C8_Witness ==
    /\ wlock = "health"
    /\ Len(entries) = 2
    /\ entries[1].latency < entries[2].latency

\* C9: when a successful load_from_file returns, the file holds exactly the
\* addresses of entries, in order, one per line.
C9_FileMirror ==
    (ret.op = "load" /\ ret.out = "ok") =>
        /\ Len(file) = Len(entries)
        /\ \A i \in 1..Len(file) : file[i] = [addr |-> entries[i].address, pad |-> FALSE]

\* A ping returns Ok with two entries while a health cycle is probing.
C9_Witness ==
    /\ ret.op = "load"
    /\ ret.out = "ok"
    /\ main_pc = "console"
    /\ Len(entries) = 2
    /\ \E t \in BagToSet(health) : t.pc = "probe"

Visited(st) == \E i \in 1..Len(sess.path) : sess.path[i] = st

OfferedUserPass == sess.greeting # None /\ 2 \in sess.greeting[1].methods

SuppliedConfigured ==
    /\ sess.auth # None
    /\ sess.auth[1].username = ConfigUsername
    /\ sess.auth[1].password = ConfigPassword

NoConnectReply == \A i \in 1..Len(sess.out) : Len(sess.out[i]) # 10

C11_NoAuthNeedsMethod0 ==
    (~use_auth /\ sess.greeting # None /\ 0 \notin sess.greeting[1].methods) =>
        /\ ~Visited("request")
        /\ \A i \in 1..Len(sess.out) : sess.out[i] # <<5, 0>>

HandshakeReplies ==
    IF use_auth THEN <<<<5, 2>>, <<1, 0>>>> ELSE <<<<5, 0>>>>

\* C12: when get_current_proxy returns None to a session, the client is sent
\* exactly 05 01 00 01 00 00 00 00 00 00 after the handshake replies, no
\* upstream is connected to, and the session ends.
C12_EmptyPoolReply ==
    (sess.pool_calls > 0 /\ sess.proxy = None) =>
        /\ sess.st = "closed"
        /\ sess.out = Append(HandshakeReplies, <<5, 1, 0, 1, 0, 0, 0, 0, 0, 0>>)
        /\ sess.connects = 0
        /\ sess.peer = None
        /\ sess.up = <<>>

\* A session with a valid CONNECT request has met the empty pool.
C12_Witness ==
    /\ entries = <<>>
    /\ sess.pool_calls = 1
    /\ sess.request # None
    /\ sess.request[1].atyp = 3
    /\ sess.st = "closed"

\* C13: a session that got an upstream from the pool and ends without
\* having connected to it (the address does not parse, or the connect
\* fails) has sent the client 05 04 00 01 00 00 00 00 00 00 last.
C13_UnreachableReply ==
    (sess.st = "closed" /\ sess.proxy # None /\ ~Visited("upstream_neg")) =>
        sess.out[Len(sess.out)] = <<5, 4, 0, 1, 0, 0, 0, 0, 0, 0>>

IsIPv6Request ==
    /\ sess.request # None
    /\ sess.request[1].ver = 5
    /\ sess.request[1].cmd = 1
    /\ sess.request[1].atyp = 4

IPv6Rejected ==
    /\ sess.st = "closed"
    /\ NoConnectReply
    /\ sess.pool_calls = 0
    /\ sess.connects = 0
    /\ sess.up = <<>>
    /\ ~Visited("select")
    /\ ~Visited("relay")

C15_BadRequestCloses ==
    (sess.request # None /\ (sess.request[1].ver # 5 \/ sess.request[1].cmd # 1)) =>
        /\ sess.st = "closed"
        /\ sess.consumed = 4
        /\ sess.target_addr = <<>>
        /\ sess.pool_calls = 0
        /\ sess.connects = 0
        /\ sess.up = <<>>
        /\ NoConnectReply
        /\ ~Visited("relay")

\* A BIND request (CMD = 2) for an IPv4 target has closed the session.
C15_Witness ==
    /\ sess.request # None
    /\ sess.request[1].ver = 5
    /\ sess.request[1].cmd = 2
    /\ sess.request[1].atyp = 1
    /\ sess.st = "closed"

SentSuccess == \E i \in 1..Len(sess.out) : sess.out[i] = <<5, 0, 0, 1, 0, 0, 0, 0, 0, 0>>

ReplyAddrLen(u) ==
    CASE u[4] = 1 -> 4
      [] u[4] = 3 -> 1 + u[5]
      [] u[4] = 4 -> 16
      [] OTHER -> 0

\* The upstream's reply has REP = 0, a supported ATYP, and its bound address
\* and port are there in full.
UpstreamReplyGood(u) ==
    /\ Len(u) >= 5
    /\ u[2] = 0
    /\ u[4] \in {1, 3, 4}
    /\ Len(u) >= 4 + ReplyAddrLen(u) + 2

\* C16: the client is sent the success reply iff the upstream's reply had
\* REP = 0 and a supported ATYP and its bound address and port were read in
\* full; on REP # 0 the client is sent 05 04 00 01 00 00 00 00 00 00 and the
\* session ends; the relay is entered only after the success reply.
C16_SuccessReply ==
    /\ SentSuccess <=>
          /\ sess.ureply # None
          /\ UpstreamReplyGood(sess.ureply[1])
          /\ sess.up_read = 4 + ReplyAddrLen(sess.ureply[1]) + 2
    /\ (sess.ureply # None /\ Len(sess.ureply[1]) >= 4 /\ sess.ureply[1][2] # 0) =>
          /\ sess.st = "closed"
          /\ sess.out[Len(sess.out)] = <<5, 4, 0, 1, 0, 0, 0, 0, 0, 0>>
          /\ ~Visited("relay")
    /\ Visited("relay") =>
          /\ SentSuccess
          /\ sess.out[Len(sess.out)] = <<5, 0, 0, 1, 0, 0, 0, 0, 0, 0>>

\* The relay runs after an upstream reply that bound a domain name.
C16_Witness ==
    /\ sess.st = "relay"
    /\ sess.ureply # None
    /\ sess.ureply[1] = <<5, 0, 0, 3, 2, 97, 98, 0, 0>>
    /\ sess.up_read = 9

\* The request as the client put it on the wire after VER CMD RSV.
ClientTarget(r) ==
    <<r.atyp>> \o (IF r.atyp = 3 THEN <<Len(r.addr)>> ELSE <<>>) \o r.addr \o r.port

\* C17: what the session writes to the upstream after the method
\* negotiation is 05 01 00 followed by the client's ATYP, address bytes
\* (with the length byte of a domain) and port, unchanged.
C17_RequestRoundTrip ==
    Len(sess.up) >= 2 =>
        /\ Len(sess.up) = 2
        /\ sess.up[1] = <<5, 1, 0>>
        /\ sess.up[2] = <<5, 1, 0>> \o ClientTarget(sess.request[1])

\* An IPv4 target with octets of one, two and three digits went upstream.
C17_Witness ==
    /\ Len(sess.up) = 2
    /\ sess.request[1].atyp = 1
    /\ sess.request[1].addr = <<10, 0, 9, 255>>
    /\ sess.request[1].port = <<31, 144>>

\* A domain of 255 bytes went upstream.
C17_WitnessLongDomain ==
    /\ Len(sess.up) = 2
    /\ sess.request[1].addr = LongDomain

\* C18: a session calls get_current_proxy at most once, and only after its
\* request is parsed; it connects at most once, to the address that call
\* returned; and once captured, neither the captured entry nor the upstream
\* changes for the rest of the session, whatever next_proxy, choose_proxy
\* and the swaps of entries do to the pool meanwhile.
C18_CapturedOnce ==
    /\ [](/\ sess.pool_calls <= 1
          /\ sess.connects <= 1
          /\ sess.pool_calls = 1 => (sess.request # None /\ sess.consumed > 4)
          /\ sess.connects = 1 =>
                (sess.proxy # None /\ sess.peer = Some(sess.proxy[1].address))
          /\ sess.connects = 0 => sess.peer = None
          /\ sess.st \in {"upstream_neg", "upstream_req", "upstream_reply", "relay"} =>
                sess.connects = 1)
    /\ [][(sess.pool_calls = 1 /\ listener' = listener) =>
             /\ sess'.pool_calls = 1
             /\ sess'.proxy = sess.proxy
             /\ sess'.peer = sess.peer
             /\ sess'.connects = sess.connects]_vars

\* The session relays through upstream 2 after the pool lost that entry
\* and moved on to another one.
C18_Witness ==
    /\ sess.st = "relay"
    /\ sess.peer = Some(2)
    /\ entries # <<>>
    /\ \A i \in 1..Len(entries) : entries[i].address # 2
    /\ GetCurrent(entries, current_index) # None

\* C19: once bound, the listener stays in its accept loop: no accept error
\* and no step of a session takes it out; a session that ends changes
\* nothing but itself; and while the run lasts the next connection can be
\* accepted whatever state the session is in.
C19_AcceptLoopSurvives ==
    /\ [][listener.pc = "accepting" => listener'.pc = "accepting"]_vars
    /\ [][(sess.st # "closed" /\ sess'.st = "closed") => UNCHANGED <<listener, poolside>>]_vars
    /\ []((listener.pc = "accepting" /\ listener.accepted < MaxSessions) => ENABLED SessAccept)

\* After an accept error and a session that failed its handshake, the
\* listener has accepted again and is still accepting.
C19_Witness ==
    /\ listener.pc = "accepting"
    /\ listener.errors = 1
    /\ listener.accepted = 2
    /\ sess.st = "closed"
    /\ sess.greeting # None
    /\ sess.greeting[1].ver = 4

\* C20: at most one health-loop task exists at any time.
C20_SingleHealthLoop == BagCardinality(health) <= 1

\* An advance of the pool as one next_proxy call makes it.
OneAdvance ==
    IF entries = <<>>
    THEN current_index' = current_index /\ ret'.val = None
    ELSE /\ current_index' = (current_index + 1) % Len(entries)
         /\ ret'.val = Some(entries[current_index' + 1])

\* C21: the auto-switch task ticks iff auto_switch is set; each tick is
\* exactly one next_proxy (returning None on an empty pool); without
\* auto_switch only the console's next / goto change current_index.
C21_AutoSwitch ==
    /\ [](ENABLED AutoSwitchTick <=> (auto_switch /\ Alive /\ wlock = "none"))
    /\ [][(ret'.by = "ticker" /\ <<ret, hist, current_index>>' # <<ret, hist, current_index>>) =>
             (ret'.op = "next" /\ OneAdvance /\ entries' = entries)]_vars
    /\ [][(~auto_switch /\ current_index' # current_index) =>
             (ret'.by = "console" /\ ret'.op \in {"next", "choose"})]_vars

\* The ticker has advanced the pool twice in a row.
C21_Witness ==
    /\ auto_switch
    /\ ret.by = "ticker"
    /\ ret.val # None
    /\ hist.kind = "run"
    /\ hist.k = 2

\* A task is about to write the backing file: load_from_file at line 239, a
\* health loop at line 318.
LoadWritesFile == load.pc = "write"
HealthWritesFile == \E t \in BagToSet(health) : t.pc = "write"

\* C24: no task holds a guard on `proxies` while it performs I/O: the file
\* is written only after the write guard of the swap has been released.
C24_NoLockAcrossIO ==
    /\ LoadWritesFile => wlock # "load"
    /\ HealthWritesFile => wlock # "health"

\* A step in which load_from_file is entered.
LoadEntered ==
    /\ load.pc = "idle"
    /\ load'.pc # "idle" \/ (ret' # ret /\ ret'.op = "load")

\* C27: load_from_file on a file with no non-blank lines returns the
\* InvalidData error without probing, without rewriting the file and without
\* starting a health loop; and that error is returned in no other case.
C27_EmptyFileFails ==
    /\ [][(LoadEntered /\ LoadCandidates(file) = <<>>) =>
            /\ load' = LoadIdle
            /\ ret'.out \in {"empty", "err"}
            /\ file' = file
            /\ health' = health
            /\ entries' = entries
            /\ wlock' = wlock]_vars
    /\ [][(ret' # ret /\ ret'.out = "empty") =>
            (LoadEntered /\ LoadCandidates(file) = <<>> /\ load' = LoadIdle)]_vars
    /\ [](ret.out = "empty" => load.pc = "idle")

\* The startup load found only blank lines and main gave up.
C27_Witness ==
    /\ ret.op = "load"
    /\ ret.out = "empty"
    /\ main_pc = "stopped"
    /\ file # <<>>
    /\ health = EmptyBag
    /\ entries = <<>>

\* A step in which a health loop ends its iteration (lines 313-329).
HealthIterationEnds == wlock = "health" /\ wlock' = "none"

\* C28: a health cycle rewrites the file with the surviving addresses iff
\* something survived; a cycle where nothing survived leaves the file; a
\* failed write keeps the swap and the loop goes back to sleep and runs
\* its next cycle.
C28_HealthRewrite ==
    /\ [][HealthIterationEnds =>
            /\ entries' = entries
            /\ \E t \in BagToSet(health) :
                  /\ t.pc = "write"
                  /\ health' = Replace(health, t, HealthAsleep)
            /\ IF entries = <<>>
               THEN file' = file
               ELSE file' \in {file, JoinLines(Addresses(entries))}]_vars
    /\ []((Alive /\ wlock = "health" /\ entries # <<>>) =>
            ENABLED (HealthWrite /\ file' = JoinLines(Addresses(entries))))
    /\ []((Alive /\ wlock = "none" /\ BagIn(HealthAsleep, health)) =>
            ENABLED HealthSnapshot)

\* A health cycle in which every probe failed has ended: the pool is empty,
\* the file still lists addresses, the loop sleeps.
C28_Witness ==
    /\ entries = <<>>
    /\ LoadCandidates(file) # <<>>
    /\ wlock = "none"
    /\ main_pc = "console"
    /\ load.pc = "idle"
    /\ ret = RetNone
    /\ BagCardinality(health) = 2
    /\ \A t \in BagToSet(health) : t.pc = "sleep"

\* A health cycle with survivors whose file write failed has ended: the
\* pool holds fewer addresses than the file, the loop sleeps.
C28_WitnessWriteFailed ==
    /\ entries # <<>>
    /\ file # JoinLines(Addresses(entries))
    /\ wlock = "none"
    /\ main_pc = "console"
    /\ load.pc = "idle"
    /\ ret = RetNone
    /\ \A t \in BagToSet(health) : t.pc = "sleep"

Ended(dir) == sess.relay[dir] \in {"eof", "err"}

\* C29: a relaying session owns both sockets and both copies; as soon as one
\* copy ends (EOF or error) the session is closed, the other copy is dropped
\* unfinished, both sockets are released and nothing more is moved.
C29_RelayEndsOnEither ==
    /\ [](sess.st = "relay" =>
            /\ sess.open = {"client", "upstream"}
            /\ \A dir \in Directions : sess.relay[dir] = "copying")
    /\ [](\A dir \in Directions : Ended(dir) =>
            /\ sess.st = "closed"
            /\ sess.open = {}
            /\ sess.relay[Other(dir)] = "dropped")
    /\ [][(sess.st = "relay" /\ sess'.st = "relay") =>
            \A dir \in Directions : sess'.relay[dir] = "copying"]_vars
    /\ [][(sess.st = "closed" /\ sess'.st = "closed") => sess' = sess]_vars

\* The upstream-to-client copy failed after both directions had moved data.
C29_Witness ==
    /\ sess.st = "closed"
    /\ sess.relay.u2c = "err"
    /\ sess.relay.c2u = "dropped"
    /\ \A dir \in Directions : sess.relay.moved[dir] = MaxRelayed
    /\ sess.open = {}

\* The client closed its side first.
C29_WitnessClientEOF ==
    /\ sess.st = "closed"
    /\ sess.relay.c2u = "eof"
    /\ sess.relay.u2c = "dropped"

\* C25: in a test_proxies run at most max_concurrency probes are in flight
\* (each holds one of the semaphore's permits); no candidate is probed
\* twice and at the return each has been probed once; a probe that fails
\* ends its own task only, and a waiting task can start whenever a permit
\* is free.
C25_BoundedProbes ==
    /\ [](Cardinality(InFlight(tester)) <= tester.max_concurrency)
    /\ [](Cardinality(InFlight(tester)) + tester.permits = tester.max_concurrency)
    /\ [](\A i \in 1..Len(tester.cands) :
            /\ tester.probes[i] <= 1
            /\ tester.pc = "returned" => tester.probes[i] = 1)
    /\ [][\A i \in 1..Len(tester.cands) :
            (tester.task[i] = "probing" /\ tester'.task[i] = "done") =>
               /\ \A j \in 1..Len(tester.cands) \ {i} :
                     /\ tester'.task[j] = tester.task[j]
                     /\ tester'.probes[j] = tester.probes[j]
               /\ tester'.valid_proxies = tester.valid_proxies
               /\ tester'.pc = tester.pc]_vars
    /\ []((/\ \E i \in 1..Len(tester.cands) : tester.task[i] = "waiting"
           /\ Cardinality(InFlight(tester)) < tester.max_concurrency) =>
            ENABLED TaskAcquire)

\* Two probes are in flight under max_concurrency = 2 after another
\* candidate's probe has failed.
C25_Witness ==
    /\ tester.max_concurrency = 2
    /\ Cardinality(InFlight(tester)) = 2
    /\ \E i \in 1..Len(tester.cands) :
          tester.task[i] = "done" /\ tester.measured[i] = 0 /\ tester.probes[i] = 1

\* A probe waits for a permit while max_concurrency others are in flight.
C25_WitnessWaiting ==
    /\ tester.max_concurrency = 1
    /\ Cardinality(InFlight(tester)) = 1
    /\ Cardinality({i \in 1..Len(tester.cands) : tester.task[i] = "waiting"}) = 2

\* How many elements of s equal e.
Count(s, e) == Cardinality({i \in 1..Len(s) : s[i] = e})

\* The elements of s with latency l, in their order in s.
WithLatency(s, l) ==
    LET Is(e) == e.latency = l
    IN  SelectSeq(s, Is)

\* C26: test_proxies returns one entry per candidate whose probe succeeded,
\* with the candidate's address and the latency measured in this run, and
\* none for a failed one; the result ascends in latency and entries of equal
\* latency keep the order in which they were pushed onto valid_proxies.
C26_ResultOfTester ==
    (tester.pc = "returned") =>
        LET r == tester.result
        IN  /\ \A a \in Address, l \in Latency :
                  Count(r, [address |-> a, latency |-> l]) =
                  Cardinality({i \in 1..Len(tester.cands) :
                                  tester.cands[i] = a /\ tester.measured[i] = l})
            /\ \A i \in 1..Len(r) : r[i] \in ProxyEntry
            /\ \A i, j \in 1..Len(r) : i < j => r[i].latency <= r[j].latency
            /\ \A l \in Latency : WithLatency(r, l) = WithLatency(tester.valid_proxies, l)
            /\ \E order \in CollectOrders(tester.cands, tester.measured) :
                  r = TestProxies(tester.cands, tester.measured, order)

\* Of three candidates the second failed and the third was collected before
\* the first, with the same latency.
C26_Witness ==
    /\ tester.pc = "returned"
    /\ tester.cands = <<1, 2, 2>>
    /\ tester.measured[2] = 0
    /\ tester.result = <<[address |-> 2, latency |-> 2], [address |-> 1, latency |-> 2]>>

\* The sort moved a faster candidate, collected last, to the front.
C26_WitnessSorted ==
    /\ tester.pc = "returned"
    /\ Len(tester.result) = 3
    /\ tester.valid_proxies[3].latency < tester.valid_proxies[1].latency
    /\ tester.result[1] = tester.valid_proxies[3]

\* C22: a task that writes current_index (next_proxy, choose_proxy) holds
\* the write guard on `proxies` while it does.
C22_IndexWrittenUnderWriteGuard ==
    \A t \in Tasks :
        (calls[t].pc = "body" /\ calls[t].op \in {"next", "choose"}) =>
            HoldsWrite(proxies_lock, t)

\* A call is under way; it waits for a guard.
InCall(t) == calls[t].pc \notin {"idle", "returned"}
Waiting(t) == Waits(proxies_lock, t) \/ Waits(index_lock, t)

\* C23: every pool call returns what the operation, applied in one step at
\* some moment between its call and its return, returns; the guards make
\* writers exclusive, and the pool a reader works on does not change before
\* the reader returns.
C23_Linearizable ==
    /\ \A t \in Tasks :
          /\ calls[t].pc = "returned" => calls[t].val = calls[t].lin
          /\ (calls[t].pc = "body" /\ calls[t].op # "swap") =>
                (Holds(proxies_lock, t) /\ proxies_lock.writer = "none")
    /\ \A l \in {proxies_lock, index_lock} : l.writer # "none" => l.readers = {}

\* A session's get_current_proxy has returned the entry at the index it
\* read while the ticker's next_proxy, still under way, has moved the index.
C23_Witness ==
    /\ calls["session"].pc = "returned"
    /\ calls["session"].val # None
    /\ calls["ticker"].pc = "body"
    /\ calls["session"].index # current_index
    /\ calls["ticker"].lin # calls["session"].val

\* C30: no set of tasks wait on each other forever: whenever a call waits
\* for a guard, some call under way does not wait and will drop its guards.
C30_NoDeadlock ==
    (\E t \in Tasks : Waiting(t)) => (\E t \in Tasks : InCall(t) /\ ~Waiting(t))

\* The addresses of a pool, as a set.
AddressSet(es) == {es[i].address : i \in 1..Len(es)}

\* A step in which a health loop replaces `proxies` (lines 310-311).
HealthSwaps == wlock = "none" /\ wlock' = "health"

\* C31: a health swap only removes entries: the addresses after the swap
\* are among those in the pool just before it, whatever loads and other
\* health loops did while the cycle was probing.
C31_HealthOnlyRemoves ==
    [][HealthSwaps => AddressSet(entries') \subseteq AddressSet(entries)]_vars

\* C32: whenever nobody holds the write guard on `proxies`, the pool is not
\* empty and no write of the file has failed, the file lists exactly the
\* addresses of the pool, in the pool's order.
C32_FileMatchesPool ==
    (wlock = "none" /\ entries # <<>> /\ ~write_failed) =>
        file = JoinLines(Addresses(entries))

\* A ping and a health cycle have overlapped and the file follows the pool
\* the later of them installed.
C32_Witness ==
    /\ wlock = "none"
    /\ ~write_failed
    /\ entries # <<>>
    /\ file = JoinLines(Addresses(entries))
    /\ main_pc = "console"
    /\ load.pc = "probe"
    /\ AddressSet(entries) # {load.cands[i] : i \in 1..Len(load.cands)}
    /\ \E t \in BagToSet(health) : t.pc = "probe" /\ t.cands # entries

\* C33: when load_from_file returns an error, entries and current_index are
\* what they were before the call changed anything.
C33_LoadAllOrNothing ==
    [][(load.pc = "write" /\ load'.pc = "idle" /\ ret'.out # "ok") =>
          (entries' = load.before /\ current_index' = current_index)]_vars

\* C34: a test_proxies call that has not returned can always take a step:
\* spawn a task, start a probe, end one, push, or join and return.
C34_TesterGoesOn == (tester.pc # "returned") => ENABLED NextTester

====
